---- MODULE Spec2Model ----
(***************************************************************************)
(* A model of akamai-config.py: the Streamlit page that uploads an Akamai  *)
(* configuration (JSON), keeps a session list of custom rules, builds a    *)
(* prompt from the rules and the configuration and sends it to an LLM      *)
(* agent.                                                                  *)
(*                                                                         *)
(* Text is modelled as a sequence of one-character strings, so that        *)
(* lower(), the substring test, join, json.load and json.dumps are         *)
(* computed character by character as Python computes them.                *)
(***************************************************************************)
EXTENDS Integers, Sequences, FiniteSets, TLC

VARIABLES
    model,          \* selectbox value (line 49)
    api_key,        \* text_input value (line 54)
    uploaded_file,  \* file_uploader value (line 136)
    event,          \* the widget event that triggered the latest script run
    custom_rules,   \* st.session_state.custom_rules (line 43)
    phase,          \* Idle: no script run; Dispatching: inside the spinner of line 147;
                    \* Succeeded: report rendered (158); Failed: error rendered (161)
    shown,          \* what the latest script run rendered below the rules section
    uncaught,       \* the exception that escaped the latest script run, if any
    calls,          \* the functions the latest analysis invoked, in order
    request,        \* the agent.run call of the latest analysis: agent and prompt
    response,       \* what that call returned or raised
    history,        \* history: every rule text appended, in the order of the Adds
    added,          \* history: for each custom rule, the ordinal of the Add that made it
    arg,            \* input of the function under test (function specifications)
    ret             \* its result

vars == <<model, api_key, uploaded_file, event, custom_rules, phase, shown, uncaught, calls,
          request, response, history, added, arg, ret>>

----------------------------------------------------------------------------
(* Bounds of the model *)

\* number of rules the Add button appends in one session
MaxAdds == 3
\* number of fragments a model identifier under test is made of
MaxFrags == 2
\* number of keys of a configuration under test
MaxKeys == 2
\* number of custom rules of a prompt under test
MaxCustom == 2

----------------------------------------------------------------------------
(* Text: a sequence of characters, each a one-character string.  A         *)
(* character the TLA+ lexer does not take inside a string (the backquote,  *)
(* the emoji) is the element naming its code point, such as "U+0060".      *)

\* the empty text
Empty == <<>>

\* F(value), the value computed once however often F uses it
Let(value, F(_)) == CHOOSE r \in {F(v) : v \in {value}} : TRUE

RECURSIVE ConcatFrom(_, _)
ConcatFrom(ts, k) == IF k > Len(ts) THEN <<>> ELSE ts[k] \o ConcatFrom(ts, k + 1)

\* the concatenation of a sequence of texts
Concat(ts) == ConcatFrom(ts, 1)

RECURSIVE JoinFrom(_, _, _)
JoinFrom(sep, ts, k) ==
    IF k > Len(ts) THEN <<>>
    ELSE IF k = Len(ts) THEN ts[k]
    ELSE ts[k] \o sep \o JoinFrom(sep, ts, k + 1)

\* sep.join(ts)
Join(sep, ts) == JoinFrom(sep, ts, 1)

\* c.lower() for one character
LowerChar(c) ==
    CASE c = "A" -> "a"
       [] c = "B" -> "b"
       [] c = "C" -> "c"
       [] c = "D" -> "d"
       [] c = "E" -> "e"
       [] c = "F" -> "f"
       [] c = "G" -> "g"
       [] c = "H" -> "h"
       [] c = "I" -> "i"
       [] c = "J" -> "j"
       [] c = "K" -> "k"
       [] c = "L" -> "l"
       [] c = "M" -> "m"
       [] c = "N" -> "n"
       [] c = "O" -> "o"
       [] c = "P" -> "p"
       [] c = "Q" -> "q"
       [] c = "R" -> "r"
       [] c = "S" -> "s"
       [] c = "T" -> "t"
       [] c = "U" -> "u"
       [] c = "V" -> "v"
       [] c = "W" -> "w"
       [] c = "X" -> "x"
       [] c = "Y" -> "y"
       [] c = "Z" -> "z"
       [] OTHER -> c

\* s.lower()
Lower(s) == [i \in 1..Len(s) |-> LowerChar(s[i])]

\* sub in s
Contains(sub, s) ==
    \E i \in 0..(Len(s) - Len(sub)) : SubSeq(s, i + 1, i + Len(sub)) = sub

\* bool(s) for a str
Truthy(s) == s # <<>>

----------------------------------------------------------------------------
(* DEFAULT_RULES, lines 8-15 *)

DEFAULT_RULES == <<
    <<"W","A","F","_","E","N","A","B","L","E","D",":"," ","E","n","s","u","r","e"," ","W","A","F"," ","i","s"," ","e","n","a","b","l","e","d"," ","f","o","r"," ","a","l","l"," ","e","n","d","p","o","i","n","t","s">>,
    <<"R","A","T","E","_","L","I","M","I","T",":"," ","V","e","r","i","f","y"," ","r","a","t","e"," ","l","i","m","i","t","i","n","g"," ","i","s"," ","c","o","n","f","i","g","u","r","e","d"," ","f","o","r"," ","A","P","I"," ","e","n","d","p","o","i","n","t","s">>,
    <<"G","E","O","_","B","L","O","C","K","I","N","G",":"," ","C","h","e","c","k"," ","g","e","o","-","b","l","o","c","k","i","n","g"," ","c","o","n","f","i","g","u","r","a","t","i","o","n"," ","f","o","r"," ","s","e","n","s","i","t","i","v","e"," ","r","e","g","i","o","n","s">>,
    <<"T","L","S","_","V","E","R","S","I","O","N",":"," ","V","a","l","i","d","a","t","e"," ","T","L","S"," ","1",".","2","+"," ","e","n","f","o","r","c","e","m","e","n","t">>,
    <<"B","O","T","_","M","A","N","A","G","E","M","E","N","T",":"," ","R","e","v","i","e","w"," ","b","o","t"," ","m","a","n","a","g","e","m","e","n","t"," ","r","u","l","e","s">>,
    <<"D","D","O","S","_","P","R","O","T","E","C","T","I","O","N",":"," ","C","o","n","f","i","r","m"," ","D","D","o","S"," ","p","r","o","t","e","c","t","i","o","n"," ","s","e","t","t","i","n","g","s">>
>>

----------------------------------------------------------------------------
(* create_security_agent, lines 17-38 *)

NoModel == [backend |-> "None", api_key |-> <<>>]
\* Agent(model=model, description=..., instructions=[...], markdown=True, reasoning=True),
\* lines 26-38
Agent(m) == [model |-> m, markdown |-> TRUE, reasoning |-> TRUE]
NoAgent == [model |-> NoModel, markdown |-> FALSE, reasoning |-> FALSE]
NoExc == [type |-> "None", msg |-> <<>>]

\* OpenAIChat(api_key=api_key), line 20
OpenAIChat(key) == [backend |-> "OpenAIChat", api_key |-> key]
\* Gemini(api_key=api_key), line 22
Gemini(key) == [backend |-> "Gemini", api_key |-> key]

\* ValueError(f"Unsupported model: {model_name}"), line 24
UnsupportedModel(model_name) ==
    [type |-> "ValueError",
     msg |-> <<"U","n","s","u","p","p","o","r","t","e","d"," ","m","o","d","e","l",":"," ">> \o model_name]

\* a variant that tests the identifier as typed, without lower()
create_case_sensitive(model_name, key) ==
    IF Contains(<<"g","p","t">>, model_name)
    THEN [ok |-> TRUE, agent |-> Agent(OpenAIChat(key)), exc |-> NoExc,
          calls |-> <<"OpenAIChat", "Agent">>]
    ELSE IF Contains(<<"g","e","m","i","n","i">>, model_name)
    THEN [ok |-> TRUE, agent |-> Agent(Gemini(key)), exc |-> NoExc,
          calls |-> <<"Gemini", "Agent">>]
    ELSE [ok |-> FALSE, agent |-> NoAgent, exc |-> UnsupportedModel(model_name),
          calls |-> <<>>]

\* a variant that tests for "gemini" before "gpt"
create_gemini_first(model_name, key) ==
    IF Contains(<<"g","e","m","i","n","i">>, Lower(model_name))
    THEN [ok |-> TRUE, agent |-> Agent(Gemini(key)), exc |-> NoExc,
          calls |-> <<"Gemini", "Agent">>]
    ELSE IF Contains(<<"g","p","t">>, Lower(model_name))
    THEN [ok |-> TRUE, agent |-> Agent(OpenAIChat(key)), exc |-> NoExc,
          calls |-> <<"OpenAIChat", "Agent">>]
    ELSE [ok |-> FALSE, agent |-> NoAgent, exc |-> UnsupportedModel(model_name),
          calls |-> <<>>]

\* The result of a call: the value returned or the exception raised, and the
\* constructors it invoked on the way.
create_security_agent(model_name, key) ==
    IF Contains(<<"g","p","t">>, Lower(model_name))
    THEN [ok |-> TRUE, agent |-> Agent(OpenAIChat(key)), exc |-> NoExc,
          calls |-> <<"OpenAIChat", "Agent">>]
    ELSE IF Contains(<<"g","e","m","i","n","i">>, Lower(model_name))
    THEN [ok |-> TRUE, agent |-> Agent(Gemini(key)), exc |-> NoExc,
          calls |-> <<"Gemini", "Agent">>]
    ELSE [ok |-> FALSE, agent |-> NoAgent, exc |-> UnsupportedModel(model_name),
          calls |-> <<>>]

----------------------------------------------------------------------------
(* JSON values: what json.load returns and json.dumps takes.               *)
(* A dict is the sequence of its <<key, value>> items in insertion order,  *)
(* its keys distinct.  Floats, NaN/Infinity and the escapes \b and \uXXXX  *)
(* are outside the alphabet of the files modelled.                         *)

JNull == [t |-> "null"]
JBool(b) == [t |-> "bool", b |-> b]
JInt(i) == [t |-> "int", i |-> i]
JStr(s) == [t |-> "str", s |-> s]
JArr(a) == [t |-> "arr", a |-> a]
JObj(o) == [t |-> "obj", o |-> o]

DigitChars == <<"0", "1", "2", "3", "4", "5", "6", "7", "8", "9">>
Digits == {DigitChars[i] : i \in 1..10}
DigitVal(c) == (CHOOSE d \in 1..10 : DigitChars[d] = c) - 1

\* json.decoder.WHITESPACE
Whitespace == {" ", "\t", "\n", "\r"}

RECURSIVE NatToStr(_)
NatToStr(n) ==
    IF n < 10 THEN <<DigitChars[n + 1]>>
    ELSE NatToStr(n \div 10) \o <<DigitChars[(n % 10) + 1]>>

\* int.__repr__
IntToStr(n) == IF n < 0 THEN <<"-">> \o NatToStr(-n) ELSE NatToStr(n)

\* d[key] = value on a dict: a present key keeps its place and takes the value
DictSet(o, key, value) ==
    IF \E i \in 1..Len(o) : o[i][1] = key
    THEN [i \in 1..Len(o) |-> IF o[i][1] = key THEN <<key, value>> ELSE o[i]]
    ELSE Append(o, <<key, value>>)

----------------------------------------------------------------------------
(* json.dumps(config, indent=2), line 112 *)

\* json.encoder.ESCAPE_ASCII for one character
EscapeChar(c) ==
    CASE c = "\"" -> <<"\\", "\"">>
      [] c = "\\" -> <<"\\", "\\">>
      [] c = "\n" -> <<"\\", "n">>
      [] c = "\r" -> <<"\\", "r">>
      [] c = "\t" -> <<"\\", "t">>
      [] c = "\f" -> <<"\\", "f">>
      [] OTHER -> <<c>>

\* json.encoder.encode_basestring_ascii
EncodeStr(s) ==
    <<"\"">> \o Concat([i \in 1..Len(s) |-> EscapeChar(s[i])]) \o <<"\"">>

\* '\n' + ' ' * (indent * level)
NewlineIndent(indent, level) ==
    <<"\n">> \o [i \in 1..(indent * level) |-> " "]

RECURSIVE Encode(_, _, _)
\* json.encoder._make_iterencode with an indent, at a nesting level
Encode(v, indent, level) ==
    CASE v.t = "null" -> <<"n","u","l","l">>
      [] v.t = "bool" -> IF v.b THEN <<"t","r","u","e">> ELSE <<"f","a","l","s","e">>
      [] v.t = "int" -> IntToStr(v.i)
      [] v.t = "str" -> EncodeStr(v.s)
      [] v.t = "arr" ->
            IF v.a = <<>> THEN <<"[", "]">>
            ELSE <<"[">> \o NewlineIndent(indent, level + 1)
                 \o Join(<<",">> \o NewlineIndent(indent, level + 1),
                         [i \in 1..Len(v.a) |-> Encode(v.a[i], indent, level + 1)])
                 \o NewlineIndent(indent, level) \o <<"]">>
      [] v.t = "obj" ->
            IF v.o = <<>> THEN <<"{", "}">>
            ELSE <<"{">> \o NewlineIndent(indent, level + 1)
                 \o Join(<<",">> \o NewlineIndent(indent, level + 1),
                         [i \in 1..Len(v.o) |->
                             EncodeStr(v.o[i][1]) \o <<":", " ">>
                             \o Encode(v.o[i][2], indent, level + 1)])
                 \o NewlineIndent(indent, level) \o <<"}">>

json_dumps(v, indent) == Encode(v, indent, 0)

----------------------------------------------------------------------------
(* json.load(uploaded_file), line 149: json.decoder and json.scanner *)

Failed(msg, pos) == [ok |-> FALSE, val |-> JNull, str |-> <<>>, pos |-> pos, err |-> msg]
Parsed(val, pos) == [ok |-> TRUE, val |-> val, str |-> <<>>, pos |-> pos, err |-> <<>>]
Scanned(str, pos) == [ok |-> TRUE, val |-> JNull, str |-> str, pos |-> pos, err |-> <<>>]

RECURSIVE SkipWs(_, _)
\* WHITESPACE.match(s, i).end(): the first position from i on that holds no whitespace
SkipWs(s, i) == IF i <= Len(s) /\ s[i] \in Whitespace THEN SkipWs(s, i + 1) ELSE i

\* s[i] == c, false past the end
At(s, i, c) == i <= Len(s) /\ s[i] = c

\* s[i:i+len(w)] == w
StartsAt(s, i, w) == i + Len(w) - 1 <= Len(s) /\ SubSeq(s, i, i + Len(w) - 1) = w

\* json.decoder.BACKSLASH
Unescape(c) ==
    CASE c = "n" -> "\n"
      [] c = "r" -> "\r"
      [] c = "t" -> "\t"
      [] c = "f" -> "\f"
      [] OTHER -> c

RECURSIVE ScanString(_, _, _)
\* json.decoder.scanstring from the character after the opening quote
ScanString(s, i, acc) ==
    IF i > Len(s) THEN Failed(<<"U","n","t","e","r","m","i","n","a","t","e","d"," ","s","t","r","i","n","g"," ","s","t","a","r","t","i","n","g"," ","a","t">>, i)
    ELSE IF s[i] = "\"" THEN Scanned(acc, i + 1)
    ELSE IF s[i] = "\\" THEN
        IF i + 1 > Len(s) THEN Failed(<<"U","n","t","e","r","m","i","n","a","t","e","d"," ","s","t","r","i","n","g"," ","s","t","a","r","t","i","n","g"," ","a","t">>, i)
        ELSE IF s[i + 1] \in {"\"", "\\", "/", "n", "r", "t", "f"}
        THEN ScanString(s, i + 2, Append(acc, Unescape(s[i + 1])))
        ELSE Failed(<<"I","n","v","a","l","i","d"," ","\\","e","s","c","a","p","e">>, i)
    ELSE IF s[i] \in {"\n", "\r", "\t", "\f"}
    THEN Failed(<<"I","n","v","a","l","i","d"," ","c","o","n","t","r","o","l"," ","c","h","a","r","a","c","t","e","r"," ","a","t">>, i)
    ELSE ScanString(s, i + 1, Append(acc, s[i]))

RECURSIVE ScanDigits(_, _, _)
\* the run of digits from i on: its int() and the position after it
ScanDigits(s, i, acc) ==
    IF i <= Len(s) /\ s[i] \in Digits
    THEN ScanDigits(s, i + 1, 10 * acc + DigitVal(s[i]))
    ELSE [val |-> acc, pos |-> i]

\* json.scanner.NUMBER_RE, integer part: -?(0|[1-9][0-9]*)
ScanNumber(s, i) ==
    LET d == IF At(s, i, "-") THEN i + 1 ELSE i
        sign == IF At(s, i, "-") THEN -1 ELSE 1
    IN IF d > Len(s) \/ s[d] \notin Digits THEN Failed(<<"E","x","p","e","c","t","i","n","g"," ","v","a","l","u","e">>, i)
       ELSE IF s[d] = "0" THEN Parsed(JInt(0), d + 1)
       ELSE Let(ScanDigits(s, d, 0), LAMBDA n : Parsed(JInt(sign * n.val), n.pos))

RECURSIVE ScanOnce(_, _)
RECURSIVE ObjectMembers(_, _, _)
RECURSIVE ArrayElements(_, _, _)

\* json.decoder.JSONObject from the character after "{"
JSONObject(s, i) ==
    Let(SkipWs(s, i), LAMBDA j :
        IF At(s, j, "}") THEN Parsed(JObj(<<>>), j + 1)
        ELSE IF ~At(s, j, "\"")
        THEN Failed(<<"E","x","p","e","c","t","i","n","g"," ","p","r","o","p","e","r","t","y"," ","n","a","m","e"," ","e","n","c","l","o","s","e","d"," ","i","n"," ","d","o","u","b","l","e"," ","q","u","o","t","e","s">>, j)
        ELSE ObjectMembers(s, j + 1, <<>>))

\* what follows a member's value, at e: the end of the object or the next key
AfterMember(s, e, pairs) ==
    IF At(s, e, "}") THEN Parsed(JObj(pairs), e + 1)
    ELSE IF ~At(s, e, ",") THEN Failed(<<"E","x","p","e","c","t","i","n","g"," ","'",",","'"," ","d","e","l","i","m","i","t","e","r">>, e)
    ELSE Let(SkipWs(s, e + 1), LAMBDA q :
        IF ~At(s, q, "\"")
        THEN Failed(<<"E","x","p","e","c","t","i","n","g"," ","p","r","o","p","e","r","t","y"," ","n","a","m","e"," ","e","n","c","l","o","s","e","d"," ","i","n"," ","d","o","u","b","l","e"," ","q","u","o","t","e","s">>, q)
        ELSE ObjectMembers(s, q + 1, pairs))

\* the loop of JSONObject, from the character after a key's opening quote
ObjectMembers(s, i, pairs) ==
    Let(ScanString(s, i, <<>>), LAMBDA k :
        IF ~k.ok THEN k
        ELSE Let(SkipWs(s, k.pos), LAMBDA c :
            IF ~At(s, c, ":") THEN Failed(<<"E","x","p","e","c","t","i","n","g"," ","'",":","'"," ","d","e","l","i","m","i","t","e","r">>, c)
            ELSE Let(ScanOnce(s, SkipWs(s, c + 1)), LAMBDA v :
                IF ~v.ok THEN v
                ELSE Let(DictSet(pairs, k.str, v.val), LAMBDA d :
                    AfterMember(s, SkipWs(s, v.pos), d)))))

\* json.decoder.JSONArray from the character after "["
JSONArray(s, i) ==
    Let(SkipWs(s, i), LAMBDA j :
        IF At(s, j, "]") THEN Parsed(JArr(<<>>), j + 1)
        ELSE ArrayElements(s, j, <<>>))

\* what follows an element, at e: the end of the array or the next element
AfterElement(s, e, acc) ==
    IF At(s, e, "]") THEN Parsed(JArr(acc), e + 1)
    ELSE IF ~At(s, e, ",") THEN Failed(<<"E","x","p","e","c","t","i","n","g"," ","'",",","'"," ","d","e","l","i","m","i","t","e","r">>, e)
    ELSE Let(SkipWs(s, e + 1), LAMBDA q : ArrayElements(s, q, acc))

\* the loop of JSONArray, from the first character of an element
ArrayElements(s, i, acc) ==
    Let(ScanOnce(s, i), LAMBDA v :
        IF ~v.ok THEN v
        ELSE Let(Append(acc, v.val), LAMBDA a :
            Let(SkipWs(s, v.pos), LAMBDA e : AfterElement(s, e, a))))

\* json.scanner.py_make_scanner._scan_once
ScanOnce(s, i) ==
    Let(i, LAMBDA p :
        IF p > Len(s) THEN Failed(<<"E","x","p","e","c","t","i","n","g"," ","v","a","l","u","e">>, p)
        ELSE IF s[p] = "\"" THEN
            Let(ScanString(s, p + 1, <<>>), LAMBDA r :
                IF r.ok THEN Parsed(JStr(r.str), r.pos) ELSE r)
        ELSE IF s[p] = "{" THEN JSONObject(s, p + 1)
        ELSE IF s[p] = "[" THEN JSONArray(s, p + 1)
        ELSE IF StartsAt(s, p, <<"n","u","l","l">>) THEN Parsed(JNull, p + 4)
        ELSE IF StartsAt(s, p, <<"t","r","u","e">>) THEN Parsed(JBool(TRUE), p + 4)
        ELSE IF StartsAt(s, p, <<"f","a","l","s","e">>) THEN Parsed(JBool(FALSE), p + 5)
        ELSE ScanNumber(s, p))

\* JSONDecodeError(msg, doc, pos); the "line l column c (char p)" tail of its text
\* is not modelled
JSONDecodeError(msg) == [type |-> "JSONDecodeError", msg |-> msg]

\* json.loads(fp.read()): JSONDecoder.decode
json_load(bytes) ==
    Let(ScanOnce(bytes, SkipWs(bytes, 1)), LAMBDA v :
        IF ~v.ok THEN [ok |-> FALSE, val |-> JNull, exc |-> JSONDecodeError(v.err)]
        ELSE IF SkipWs(bytes, v.pos) # Len(bytes) + 1
        THEN [ok |-> FALSE, val |-> JNull, exc |-> JSONDecodeError(<<"E","x","t","r","a"," ","d","a","t","a">>)]
        ELSE [ok |-> TRUE, val |-> v.val, exc |-> NoExc])

----------------------------------------------------------------------------
(* analyze_config, lines 101-121 *)

\* a variant that merges duplicates: a custom rule already in the list is dropped
RulesMerged(rules) ==
    LET all == DEFAULT_RULES \o rules
        keep == {i \in 1..Len(all) : \A j \in 1..(i - 1) : all[j] # all[i]}
        nth(k) == CHOOSE i \in keep : Cardinality({j \in keep : j <= i}) = k
    IN [k \in 1..Cardinality(keep) |-> all[nth(k)]]

\* rules = DEFAULT_RULES + custom_rules, line 103
Rules(rules) == DEFAULT_RULES \o rules

\* f'- {rule}', line 108
RuleLine(rule) == <<"-", " ">> \o rule

PromptHead ==
    <<"A","n","a","l","y","z","e"," ","t","h","i","s"," ","A","k","a","m","a","i"," ","s","e","c","u","r","i","t","y"," ","c","o","n","f","i","g","u","r","a","t","i","o","n"," ","a","g","a","i","n","s","t"," ","t","h","e"," ","f","o","l","l","o","w","i","n","g"," ","r","u","l","e","s",":","\n"," "," "," "," ","\n","R","u","l","e","s"," ","t","o"," ","c","h","e","c","k",":","\n">>
PromptMiddle ==
    <<"\n","\n","C","o","n","f","i","g","u","r","a","t","i","o","n",":","\n","U+0060","U+0060","U+0060","j","s","o","n","\n">>
PromptTail ==
    <<"\n","U+0060","U+0060","U+0060","\n","\n","P","r","o","v","i","d","e"," ","a"," ","d","e","t","a","i","l","e","d"," ","s","e","c","u","r","i","t","y"," ","a","n","a","l","y","s","i","s"," ","w","i","t","h",":","\n","1","."," ","O","v","e","r","a","l","l"," ","s","e","c","u","r","i","t","y"," ","s","c","o","r","e","\n","2","."," ","R","u","l","e","-","b","y","-","r","u","l","e"," ","a","s","s","e","s","s","m","e","n","t","\n","3","."," ","C","r","i","t","i","c","a","l"," ","f","i","n","d","i","n","g","s","\n","4","."," ","R","e","c","o","m","m","e","n","d","a","t","i","o","n","s","\n">>

\* a variant that indents the configuration by four
PromptIndent4(rules, config) ==
    PromptHead
    \o Join(<<"\n">>, [i \in 1..Len(rules) |-> RuleLine(rules[i])])
    \o PromptMiddle
    \o json_dumps(config, 4)
    \o PromptTail

\* the f-string of lines 105-120 for a rule list and a configuration
Prompt(rules, config) ==
    PromptHead
    \o Join(<<"\n">>, [i \in 1..Len(rules) |-> RuleLine(rules[i])])
    \o PromptMiddle
    \o json_dumps(config, 2)
    \o PromptTail

\* the prompt analyze_config passes to agent.run, line 121
analyze_config(config, rules) == Prompt(Rules(rules), config)

----------------------------------------------------------------------------
(* What a script run renders below the rules section *)

Markdown(body) == [kind |-> "markdown", body |-> body]
Error(body) == [kind |-> "error", body |-> body]
Warning(body) == [kind |-> "warning", body |-> body]
Info(body) == [kind |-> "info", body |-> body]
Success(body) == [kind |-> "success", body |-> body]

\* line 157; the element "U+1F4CA" stands for the chart emoji
ReportHeading == <<"#","#","#"," ">> \o <<"U+1F4CA">> \o <<" ","S","e","c","u","r","i","t","y"," ","A","n","a","l","y","s","i","s"," ","R","e","p","o","r","t">>
\* f"Analysis failed: {str(e)}", line 161
AnalysisFailed(exc) == <<"A","n","a","l","y","s","i","s"," ","f","a","i","l","e","d",":"," ">> \o exc.msg
\* line 163
EnterKeyWarning == <<"U+26A0", "U+FE0F">> \o <<" ","P","l","e","a","s","e"," ","e","n","t","e","r"," ","y","o","u","r"," ","A","P","I"," ","k","e","y"," ","i","n"," ","t","h","e"," ","s","i","d","e","b","a","r">>
\* line 165
UploadInfo == <<"U+1F4C1">> \o <<" ","P","l","e","a","s","e"," ","u","p","l","o","a","d"," ","a","n"," ","A","k","a","m","a","i"," ","c","o","n","f","i","g","u","r","a","t","i","o","n"," ","f","i","l","e">>
\* line 87
RuleAdded == <<"R","u","l","e"," ","a","d","d","e","d","!">>

\* bool(uploaded_file): an UploadedFile is truthy whatever it holds, None is not
NoFile == [present |-> FALSE, bytes |-> <<>>]
File(bytes) == [present |-> TRUE, bytes |-> bytes]

\* a variant that asks for either of the two
TriggerEither(file, key) == file.present \/ Truthy(key)

\* the condition of line 145: the analyze button exists in this run
TriggerAvailable(file, key) == file.present /\ Truthy(key)

\* lines 145-165 in a run where the analyze button is not pressed
Footer(file, key) ==
    IF TriggerAvailable(file, key) THEN <<>>
    ELSE IF ~Truthy(key) THEN <<Warning(EnterKeyWarning)>>
    ELSE <<Info(UploadInfo)>>

\* IndexError("pop index out of range")
IndexError == [type |-> "IndexError", msg |-> <<"p","o","p"," ","i","n","d","e","x"," ","o","u","t"," ","o","f"," ","r","a","n","g","e">>]

\* list.pop(i), i 0-based: a negative index counts from the end, an index outside
\* -len..len-1 raises
ListPop(rules, i) ==
    LET n == Len(rules)
        k == IF i < 0 THEN i + n ELSE i
    IN IF i < -n \/ i >= n THEN [rules |-> rules, exc |-> IndexError]
       ELSE [rules |-> [j \in 1..(n - 1) |-> IF j <= k THEN rules[j] ELSE rules[j + 1]],
             exc |-> NoExc]

\* the indices enumerate() of line 92 renders a Remove button for (0-based)
RemoveKeys(rules) == 0..(Len(rules) - 1)

\* a variant that pops the pressed key without looking for its button
remove_unguarded(rules, pressed) == ListPop(rules, pressed)

\* lines 90-99 in a run triggered by the button with key remove_<pressed>: the loop
\* finds that button, pops and reruns, or finds no such button and pops nothing
remove_pressed(rules, pressed) ==
    IF pressed \in RemoveKeys(rules) THEN ListPop(rules, pressed)
    ELSE [rules |-> rules, exc |-> NoExc]

\* line 85-87 in a run triggered by the Add button
add_pressed(rules, new_rule) ==
    IF Truthy(new_rule)
    THEN [rules |-> Append(rules, new_rule), shown |-> <<Success(RuleAdded)>>]
    ELSE [rules |-> rules, shown |-> <<>>]

NoRequest == [sent |-> FALSE, agent |-> NoAgent, prompt |-> <<>>]
NoResponse == [received |-> FALSE, ok |-> FALSE, content |-> <<>>, exc |-> NoExc]

\* a variant that sends the request again
except_retry(exc, called, req) ==
    [phase |-> "Dispatching", shown |-> <<>>, calls |-> Append(called, "agent.run"),
     request |-> req]

\* a variant that swallows the exception
except_silent(exc, called, req) ==
    [phase |-> "Failed", shown |-> <<>>, calls |-> called, request |-> req]

\* a variant that returns to the idle page without the Failed state
except_to_idle(exc, called, req) ==
    [phase |-> "Idle", shown |-> <<Error(AnalysisFailed(exc))>>, calls |-> called,
     request |-> req]

\* lines 160-161: except Exception as e: st.error(...)
except_handler(exc, called, req) ==
    [phase |-> "Failed", shown |-> <<Error(AnalysisFailed(exc))>>, calls |-> called,
     request |-> req]

\* a variant that builds the agent before it reads the file
try_block_agent_first(file, model_name, key, rules) ==
    Let(<<json_load(file.bytes), create_security_agent(model_name, key)>>, LAMBDA got :
    LET config == got[1]
        made == got[2]
    IN IF ~made.ok
       THEN except_handler(made.exc, <<"create_security_agent">> \o made.calls, NoRequest)
       ELSE IF ~config.ok
       THEN except_handler(config.exc,
                           <<"create_security_agent">> \o made.calls \o <<"json.load">>,
                           NoRequest)
       ELSE [phase |-> "Dispatching", shown |-> <<>>,
             calls |-> <<"create_security_agent">> \o made.calls
                       \o <<"json.load", "analyze_config", "json.dumps", "agent.run">>,
             request |-> [sent |-> TRUE, agent |-> made.agent,
                          prompt |-> analyze_config(config.val, rules)]])

\* lines 149-155 up to the blocking agent.run(prompt) of line 121
try_block(file, model_name, key, rules) ==
    Let(<<json_load(file.bytes), create_security_agent(model_name, key)>>, LAMBDA got :
    LET config == got[1]
        made == got[2]
    IN IF ~config.ok THEN except_handler(config.exc, <<"json.load">>, NoRequest)
       ELSE IF ~made.ok
       THEN except_handler(made.exc,
                           <<"json.load", "create_security_agent">> \o made.calls,
                           NoRequest)
       ELSE [phase |-> "Dispatching", shown |-> <<>>,
             calls |-> <<"json.load", "create_security_agent">> \o made.calls
                       \o <<"analyze_config", "json.dumps", "agent.run">>,
             request |-> [sent |-> TRUE, agent |-> made.agent,
                          prompt |-> analyze_config(config.val, rules)]])

\* lines 157-158 once agent.run(prompt).content is there
report(content) == <<Markdown(ReportHeading), Markdown(content)>>

----------------------------------------------------------------------------
(* Inputs *)

\* the two choices of the selectbox, line 51
ModelChoices == {<<"g","p","t","-","4">>, <<"g","e","m","i","n","i","-","p","r","o">>}

\* API keys typed into the sidebar: none, a key, a blank
ApiKeys == {<<>>, <<"s","k","-","1">>, <<" ">>}

\* pieces model identifiers under test are assembled from
Frags == {
    <<"g","p","t">>,
    <<"G","P","T">>,
    <<"g","P","t">>,
    <<"g","e","m","i","n","i">>,
    <<"G","e","m","i","n","i">>,
    <<"G","E","M","I","N","I">>,
    <<"-","4">>,
    <<"-","p","r","o">>,
    <<"g","p">>,
    <<"t">>,
    <<"g","e","m","i","n">>,
    <<"i">>,
    <<"c","l","a","u","d","e">>
}

\* every identifier made of at most MaxFrags pieces
ModelIds ==
    UNION {{Concat(fs) : fs \in [1..n -> Frags]} : n \in 0..MaxFrags}

\* files the user uploads: an object, an object with whitespace, a repeated key
\* and an array, a truncated object, an empty file
Files == {
    <<"{","\"","w","a","f","\"",":","t","r","u","e","}">>,
    <<" ","{","\"","a","\"",":","1",","," ","\"","a","\"",":","[","2","]","}","\n">>,
    <<"{","\"","w","a","f","\"",":","t","r","u","e">>,
    <<>>
}

\* texts typed into the rule input: nothing, a rule, a copy of a built-in rule
NewRules == {<<>>, <<"C","U","S","T","O","M","1">>, DEFAULT_RULES[1]}

\* what the backend answers: nothing, a report
Contents == {<<>>, <<"S","c","o","r","e",":"," ","7","/","1","0">>}

\* what the backend call raises
BackendErrors == {[type |-> "APIError", msg |-> <<"4","0","1"," ","U","n","a","u","t","h","o","r","i","z","e","d">>]}

----------------------------------------------------------------------------
(* The page, lines 123-165: one action per script run a widget triggers, the *)
(* analysis run cut where the spinner is up and where agent.run blocks       *)

\* a widget event; a click on a Remove button carries the button's key and, as
\* history, the list the script found
Event(kind) == [kind |-> kind, key |-> 0, before |-> <<>>]
RemoveEvent(pressed, rules) == [kind |-> "remove", key |-> pressed, before |-> rules]

InitPage ==
    /\ model = <<"g","p","t","-","4">>
    /\ api_key = <<>>
    /\ uploaded_file = NoFile
    /\ event = Event("open")
    /\ custom_rules = <<>>
    /\ phase = "Idle"
    /\ shown = Footer(NoFile, <<>>)
    /\ uncaught = NoExc
    /\ calls = <<>>
    /\ request = NoRequest
    /\ response = NoResponse
    /\ history = <<>>
    /\ added = <<>>

NotCalled == [called |-> FALSE]
Returned(result) == [called |-> TRUE, result |-> result]

Init ==
    /\ InitPage
    /\ arg = <<>>
    /\ ret = NotCalled

\* a script run that does not press the analyze button starts from a clean page
PlainRun(top, exc) ==
    /\ phase' = "Idle"
    /\ uncaught' = exc
    /\ shown' = top \o Footer(uploaded_file', api_key')
    /\ calls' = <<>>
    /\ request' = NoRequest
    /\ response' = NoResponse
    /\ UNCHANGED <<arg, ret>>

SelectModel(m) ==
    /\ phase = "Idle"
    /\ m # model
    /\ model' = m
    /\ event' = Event("select")
    /\ UNCHANGED <<api_key, uploaded_file, custom_rules, history, added>>
    /\ PlainRun(<<>>, NoExc)

EnterApiKey(k) ==
    /\ phase = "Idle"
    /\ k # api_key
    /\ api_key' = k
    /\ event' = Event("key")
    /\ UNCHANGED <<model, uploaded_file, custom_rules, history, added>>
    /\ PlainRun(<<>>, NoExc)

UploadFile(f) ==
    /\ phase = "Idle"
    /\ f # uploaded_file
    /\ uploaded_file' = f
    /\ event' = Event("upload")
    /\ UNCHANGED <<model, api_key, custom_rules, history, added>>
    /\ PlainRun(<<>>, NoExc)

PressAdd(new_rule) ==
    /\ phase = "Idle"
    /\ Truthy(new_rule) => Len(history) < MaxAdds
    /\ event' = Event("add")
    /\ LET r == add_pressed(custom_rules, new_rule)
       IN /\ custom_rules' = r.rules
          /\ IF Truthy(new_rule)
             THEN /\ history' = Append(history, new_rule)
                  /\ added' = Append(added, Len(history) + 1)
             ELSE UNCHANGED <<history, added>>
          /\ UNCHANGED <<model, api_key, uploaded_file>>
          /\ PlainRun(r.shown, NoExc)

\* the click on a Remove button reaches the script as its key; the list may have
\* shrunk since the button was drawn
PressRemove(pressed) ==
    /\ phase = "Idle"
    /\ event' = RemoveEvent(pressed, custom_rules)
    /\ LET r == remove_pressed(custom_rules, pressed)
       IN /\ custom_rules' = r.rules
          /\ added' = IF pressed \in 0..(Len(added) - 1)
                      THEN SubSeq(added, 1, pressed) \o SubSeq(added, pressed + 2, Len(added))
                      ELSE added
          /\ UNCHANGED <<model, api_key, uploaded_file, history>>
          /\ PlainRun(<<>>, r.exc)

\* the click on the analyze button: the button exists, and the spinner goes up, only
\* under the condition of line 145
PressAnalyze ==
    /\ phase = "Idle"
    /\ event' = Event("analyze")
    /\ IF TriggerAvailable(uploaded_file, api_key)
       THEN /\ phase' = "Dispatching"
            /\ shown' = <<>>
       ELSE /\ phase' = "Idle"
            /\ shown' = Footer(uploaded_file, api_key)
    /\ uncaught' = NoExc
    /\ calls' = <<>>
    /\ request' = NoRequest
    /\ response' = NoResponse
    /\ UNCHANGED <<model, api_key, uploaded_file, custom_rules, history, added, arg, ret>>

TryBlock ==
    /\ phase = "Dispatching"
    /\ ~request.sent
    /\ \E r \in {try_block(uploaded_file, model, api_key, custom_rules)} :
          /\ phase' = r.phase
          /\ shown' = r.shown
          /\ calls' = r.calls
          /\ request' = r.request
    /\ UNCHANGED <<model, api_key, uploaded_file, event, custom_rules, uncaught,
                   response, history, added, arg, ret>>

BackendReturns(content) ==
    /\ phase = "Dispatching"
    /\ request.sent
    /\ response' = [received |-> TRUE, ok |-> TRUE, content |-> content, exc |-> NoExc]
    /\ shown' = report(content)
    /\ phase' = "Succeeded"
    /\ UNCHANGED <<model, api_key, uploaded_file, event, custom_rules, uncaught, calls,
                   request, history, added, arg, ret>>

BackendRaises(exc) ==
    /\ phase = "Dispatching"
    /\ request.sent
    /\ response' = [received |-> TRUE, ok |-> FALSE, content |-> <<>>, exc |-> exc]
    /\ LET r == except_handler(exc, calls, request)
       IN /\ phase' = r.phase
          /\ shown' = r.shown
          /\ calls' = r.calls
          /\ request' = r.request
    /\ UNCHANGED <<model, api_key, uploaded_file, event, custom_rules, uncaught,
                   history, added, arg, ret>>

\* main() returns: the page stays as rendered until the next widget event
ScriptEnds ==
    /\ phase \in {"Succeeded", "Failed"}
    /\ phase' = "Idle"
    /\ UNCHANGED <<model, api_key, uploaded_file, event, custom_rules, shown, uncaught,
                   calls, request, response, history, added, arg, ret>>

Next ==
    \/ \E m \in ModelChoices : SelectModel(m)
    \/ \E k \in ApiKeys : EnterApiKey(k)
    \/ \E f \in {NoFile} \cup {File(b) : b \in Files} : UploadFile(f)
    \/ \E r \in NewRules : PressAdd(r)
    \/ \E i \in -1..MaxAdds : PressRemove(i)
    \/ PressAnalyze
    \/ TryBlock
    \/ \E c \in Contents : BackendReturns(c)
    \/ \E e \in BackendErrors : BackendRaises(e)
    \/ ScriptEnds

Spec == Init /\ [][Next]_vars

\* the script thread runs on: the try block is entered, a backend call that returns
\* returns or raises, and main() ends
FairSpec ==
    /\ Spec
    /\ WF_vars(TryBlock)
    /\ WF_vars((\E c \in Contents : BackendReturns(c)) \/ (\E e \in BackendErrors : BackendRaises(e)))
    /\ WF_vars(ScriptEnds)

----------------------------------------------------------------------------
(* create_security_agent as a function: every identifier of ModelIds *)

PageUnchanged ==
    UNCHANGED <<model, api_key, uploaded_file, event, custom_rules, phase, shown,
                uncaught, calls, request, response, history, added>>

InitAgent ==
    /\ InitPage
    /\ arg \in [model_name : ModelIds, api_key : ApiKeys]
    /\ ret = NotCalled

CallCreate ==
    /\ ~ret.called
    /\ ret' = Returned(create_security_agent(arg.model_name, arg.api_key))
    /\ UNCHANGED arg
    /\ PageUnchanged

NextAgent == CallCreate

SpecAgent == InitAgent /\ [][NextAgent]_vars

----------------------------------------------------------------------------
(* analyze_config's prompt as a function: configurations and custom rules *)

ConfigKeys == {<<"a">>, <<"w","a","f">>, <<"k"," ","1">>}

\* values of a configuration under test
ConfigValues == {
    JBool(TRUE),
    JInt(1),
    JInt(-305),
    JStr(<<"x","\"","y","\\","z","\n">>),
    JArr(<<JNull, JObj(<<<<<<"b">>, JArr(<<>>)>>>>)>>)
}

\* every dict of at most MaxKeys distinct keys
Configs ==
    UNION {{JObj([i \in 1..n |-> <<ks[i], vs[i]>>]) :
                ks \in {s \in [1..n -> ConfigKeys] : \A i, j \in 1..n : s[i] = s[j] => i = j},
                vs \in [1..n -> ConfigValues]} : n \in 0..MaxKeys}

PromptRules == {<<"R","1">>, <<"R","2">>}

CustomLists == UNION {[1..n -> PromptRules] : n \in 0..MaxCustom}

InitPrompt ==
    /\ InitPage
    /\ arg \in [config : Configs, custom_rules : CustomLists]
    /\ ret = NotCalled

CallAnalyze ==
    /\ ~ret.called
    /\ ret' = Returned(analyze_config(arg.config, arg.custom_rules))
    /\ UNCHANGED arg
    /\ PageUnchanged

NextPrompt == CallAnalyze

SpecPrompt == InitPrompt /\ [][NextPrompt]_vars

----------------------------------------------------------------------------
(* Properties *)

RECURSIVE Lines(_)
\* text.split("\n")
Lines(s) ==
    IF \A i \in 1..Len(s) : s[i] # "\n" THEN <<s>>
    ELSE LET i == CHOOSE k \in 1..Len(s) : s[k] = "\n" /\ \A j \in 1..(k - 1) : s[j] # "\n"
         IN <<SubSeq(s, 1, i - 1)>> \o Lines(SubSeq(s, i + 1, Len(s)))

\* the six built-in rules as the source spells them
BuiltIn == <<
    <<"W","A","F","_","E","N","A","B","L","E","D",":"," ","E","n","s","u","r","e"," ","W","A","F"," ","i","s"," ","e","n","a","b","l","e","d"," ","f","o","r"," ","a","l","l"," ","e","n","d","p","o","i","n","t","s">>,
    <<"R","A","T","E","_","L","I","M","I","T",":"," ","V","e","r","i","f","y"," ","r","a","t","e"," ","l","i","m","i","t","i","n","g"," ","i","s"," ","c","o","n","f","i","g","u","r","e","d"," ","f","o","r"," ","A","P","I"," ","e","n","d","p","o","i","n","t","s">>,
    <<"G","E","O","_","B","L","O","C","K","I","N","G",":"," ","C","h","e","c","k"," ","g","e","o","-","b","l","o","c","k","i","n","g"," ","c","o","n","f","i","g","u","r","a","t","i","o","n"," ","f","o","r"," ","s","e","n","s","i","t","i","v","e"," ","r","e","g","i","o","n","s">>,
    <<"T","L","S","_","V","E","R","S","I","O","N",":"," ","V","a","l","i","d","a","t","e"," ","T","L","S"," ","1",".","2","+"," ","e","n","f","o","r","c","e","m","e","n","t">>,
    <<"B","O","T","_","M","A","N","A","G","E","M","E","N","T",":"," ","R","e","v","i","e","w"," ","b","o","t"," ","m","a","n","a","g","e","m","e","n","t"," ","r","u","l","e","s">>,
    <<"D","D","O","S","_","P","R","O","T","E","C","T","I","O","N",":"," ","C","o","n","f","i","r","m"," ","D","D","o","S"," ","p","r","o","t","e","c","t","i","o","n"," ","s","e","t","t","i","n","g","s">>
>>

\* the rules a prompt lists: its lines after "Rules to check:" up to the first empty
\* line, each without its leading "- "
RulesListed(prompt) ==
    LET ls == Lines(prompt)
        h == CHOOSE k \in 1..Len(ls) : ls[k] = <<"R","u","l","e","s"," ","t","o"," ","c","h","e","c","k",":">>
        e == CHOOSE k \in (h + 1)..Len(ls) : ls[k] = <<>> /\ \A j \in (h + 1)..(k - 1) : ls[j] # <<>>
    IN [k \in 1..(e - h - 1) |-> SubSeq(ls[h + k], 3, Len(ls[h + k]))]

\* the custom rules as the history of Adds and Removes gives them: the texts of the
\* Adds not removed, in the order of the Adds
CustomFromHistory == [k \in 1..Len(added) |-> history[added[k]]]

\* C1: after any sequence of Adds and Removes, the custom list holds the added rules
\* that were not removed, in the order they were added and with duplicates kept,
\* and the rules in a prompt sent to the model are the six built-in rules, in their
\* order, followed by that list.
C1_RulesSent ==
    /\ \A k \in 1..(Len(added) - 1) : added[k] < added[k + 1]
    /\ custom_rules = CustomFromHistory
    /\ request.sent => RulesListed(request.prompt) = BuiltIn \o CustomFromHistory

\* C1 witness: a prompt went out after an Add, a Remove and Adds of a rule twice and
\* of a copy of a built-in rule
C1_Witness ==
    /\ request.sent
    /\ Len(history) = 3
    /\ Len(custom_rules) = 2
    /\ added[1] > 1
    /\ \/ custom_rules[1] = custom_rules[2]
       \/ custom_rules[1] = BuiltIn[1]

\* C2: a click on a Remove button whose index is outside the list (below 0, or at or
\* past its length) leaves the list as it was, and no exception leaves the script.
C2_RemoveOutOfRange ==
    (event.kind = "remove" /\ (event.key < 0 \/ event.key >= Len(event.before)))
        => (custom_rules = event.before /\ uncaught = NoExc)

\* C2 witness: such a click arrived, below and past a list that holds rules
C2_Witness ==
    /\ event.kind = "remove"
    /\ event.before # <<>>
    /\ event.key < 0 \/ event.key >= Len(event.before)
    /\ custom_rules = event.before

\* the identifier holds the letters g, p, t in a row, each in either case
HasGpt(s) ==
    \E i \in 1..(Len(s) - 2) :
        s[i] \in {"g", "G"} /\ s[i + 1] \in {"p", "P"} /\ s[i + 2] \in {"t", "T"}

\* the identifier holds the letters g, e, m, i, n, i in a row, each in either case
HasGemini(s) ==
    \E i \in 1..(Len(s) - 5) :
        /\ s[i] \in {"g", "G"}
        /\ s[i + 1] \in {"e", "E"}
        /\ s[i + 2] \in {"m", "M"}
        /\ s[i + 3] \in {"i", "I"}
        /\ s[i + 4] \in {"n", "N"}
        /\ s[i + 5] \in {"i", "I"}

\* the call raised Unsupported-Model having constructed nothing and called nothing
RaisedUnsupported(r, id) ==
    /\ ~r.ok
    /\ r.agent = NoAgent
    /\ r.exc.type = "ValueError"
    /\ r.exc.msg = <<"U","n","s","u","p","p","o","r","t","e","d"," ","m","o","d","e","l",":"," ">> \o id
    /\ r.calls = <<>>

\* the call returned an agent of the backend, having constructed the backend and the
\* agent and sent nothing
Resolved(r, backend, key) ==
    /\ r.ok
    /\ r.exc = NoExc
    /\ r.agent.model.backend = backend
    /\ r.agent.model.api_key = key
    /\ r.calls = <<backend, "Agent">>

\* C3 as stated: an identifier holding "gpt" in any case resolves to OpenAI, one
\* holding "gemini" in any case resolves to Gemini, every other raises
\* Unsupported-Model before anything is constructed or sent.
C3_AsStated ==
    ret.called =>
        /\ HasGpt(arg.model_name) => Resolved(ret.result, "OpenAIChat", arg.api_key)
        /\ HasGemini(arg.model_name) => Resolved(ret.result, "Gemini", arg.api_key)
        /\ (~HasGpt(arg.model_name) /\ ~HasGemini(arg.model_name))
               => RaisedUnsupported(ret.result, arg.model_name)

\* C3: an identifier holding "gpt" in any case resolves to OpenAI, one holding
\* "gemini" in any case and no "gpt" resolves to Gemini, every other raises
\* Unsupported-Model before anything is constructed or sent.
C3_Dispatch ==
    ret.called =>
        /\ HasGpt(arg.model_name) => Resolved(ret.result, "OpenAIChat", arg.api_key)
        /\ (HasGemini(arg.model_name) /\ ~HasGpt(arg.model_name))
               => Resolved(ret.result, "Gemini", arg.api_key)
        /\ (~HasGpt(arg.model_name) /\ ~HasGemini(arg.model_name))
               => RaisedUnsupported(ret.result, arg.model_name)

\* C3 witness: an identifier that comes close to both names and holds neither
C3_Witness ==
    /\ ret.called
    /\ arg.model_name = <<"g","e","m","i","n","g","p">>
    /\ RaisedUnsupported(ret.result, arg.model_name)

\* C10: an identifier holding both "gpt" and "gemini" resolves to OpenAI; Gemini is
\* the outcome only of identifiers without "gpt"; every identifier has one outcome,
\* an agent of one backend or the exception, whatever the key.
C10_GptFirst ==
    ret.called =>
        /\ (HasGpt(arg.model_name) /\ HasGemini(arg.model_name))
               => ret.result.agent.model.backend = "OpenAIChat"
        /\ ret.result.agent.model.backend = "Gemini" => ~HasGpt(arg.model_name)
        /\ ret.result.ok
               <=> (ret.result.agent.model.backend \in {"OpenAIChat", "Gemini"}
                    /\ ret.result.exc = NoExc)
        /\ ~ret.result.ok
               <=> (ret.result.agent = NoAgent /\ ret.result.exc.type = "ValueError")
        /\ \A k \in ApiKeys :
               create_security_agent(arg.model_name, k).ok = ret.result.ok

\* C10 witness: identifiers holding both names, in either order
C10_Witness ==
    /\ ret.called
    /\ arg.model_name \in {<<"g","e","m","i","n","i","g","p","t">>, <<"G","P","T","G","e","m","i","n","i">>}
    /\ ret.result.agent.model.backend = "OpenAIChat"

\* the latest script run is an analysis: the analyze button was pressed with a file
\* and a key there
Triggered ==
    event.kind = "analyze" /\ uploaded_file.present /\ api_key # <<>>

\* ... and that analysis has ended
Ended == Triggered /\ phase \in {"Succeeded", "Failed", "Idle"}

\* the files of the model that are not JSON: the truncated object, the empty file
NotJson == {<<"{","\"","w","a","f","\"",":","t","r","u","e">>, <<>>}

Count(x, seq) == Cardinality({i \in 1..Len(seq) : seq[i] = x})

ErrorShown == \E i \in 1..Len(shown) : shown[i].kind = "error"
ReportShown == \E i \in 1..Len(shown) : shown[i].kind = "markdown"

\* C4: an analysis of a file that is not JSON ends in the failure message, and in
\* that run nothing but json.load is invoked: no create_security_agent, no
\* analyze_config, no agent.run.
C4_MalformedInput ==
    (Triggered /\ uploaded_file.bytes \in NotJson) =>
        /\ phase # "Succeeded"
        /\ ~request.sent
        /\ ~response.received
        /\ \A i \in 1..Len(calls) : calls[i] = "json.load"
        /\ Ended =>
              /\ calls = <<"json.load">>
              /\ Len(shown) = 1
              /\ shown[1].kind = "error"
              /\ SubSeq(shown[1].body, 1, 17) = <<"A","n","a","l","y","s","i","s"," ","f","a","i","l","e","d",":"," ">>

\* C4 witness: the analysis of the truncated file has failed
C4_Witness ==
    /\ Triggered
    /\ uploaded_file.bytes = <<"{","\"","w","a","f","\"",":","t","r","u","e">>
    /\ phase = "Failed"

\* C5: an analysis of a JSON file with a supported model sends one request to the
\* backend, never none once it has ended and never a second one, also after the
\* backend failed; when the request succeeds the text shown as the analysis is the
\* text the backend returned.
C5_OneRequest ==
    (Triggered /\ uploaded_file.bytes \notin NotJson /\ (HasGpt(model) \/ HasGemini(model))) =>
        /\ Count("agent.run", calls) <= 1
        /\ Ended =>
              /\ Count("agent.run", calls) = 1
              /\ request.sent
              /\ request.agent.model.backend
                     = (IF HasGpt(model) THEN "OpenAIChat" ELSE "Gemini")
              /\ response.received
              /\ response.ok =>
                    /\ Len(shown) = 2
                    /\ shown[2] = Markdown(response.content)
              /\ ~response.ok => phase # "Succeeded"

\* C5 witness: an analysis has succeeded on one request and shows the text returned
C5_Witness ==
    /\ Triggered
    /\ phase = "Succeeded"
    /\ Count("agent.run", calls) = 1
    /\ response.content = <<"S","c","o","r","e",":"," ","7","/","1","0">>
    /\ shown[2].body = <<"S","c","o","r","e",":"," ","7","/","1","0">>

\* a report with content is shown
FullReport ==
    /\ Len(shown) = 2
    /\ shown[1] = Markdown(ReportHeading)
    /\ shown[2].kind = "markdown"
    /\ shown[2].body # <<>>

\* C6 as stated: an analysis that has ended shows a full report or an error
\* message, not both and not neither, a report with empty content counting as
\* neither.
C6_AsStated ==
    Ended =>
        /\ FullReport \/ ErrorShown
        /\ ~(ReportShown /\ ErrorShown)
        /\ ReportShown => FullReport

\* C6: an analysis that has ended shows the report heading followed by the text the
\* backend returned, or one error message, not both and not neither; the text of
\* the report is empty when the backend returned an empty text.
C6_OneOutcome ==
    Ended =>
        /\ \/ /\ response.ok
              /\ shown = <<Markdown(ReportHeading), Markdown(response.content)>>
           \/ /\ ~response.ok
              /\ Len(shown) = 1
              /\ shown[1].kind = "error"
              /\ shown[1].body # <<>>
        /\ ~(ReportShown /\ ErrorShown)
        /\ ReportShown \/ ErrorShown

\* C6 witness: an analysis has ended on a report whose text is empty
C6_Witness ==
    /\ Ended
    /\ response.ok
    /\ response.content = <<>>
    /\ shown = <<Markdown(ReportHeading), Markdown(<<>>)>>

\* C8: an analysis is under way or has run only with both an uploaded file and a
\* non-empty key; where either is missing the page is idle, nothing was parsed,
\* constructed or sent, and no report or failure is shown.
C8_TriggerGuard ==
    /\ (phase # "Idle" \/ calls # <<>> \/ request.sent)
           => (uploaded_file.present /\ api_key # <<>>)
    /\ (~uploaded_file.present \/ api_key = <<>>)
           => (phase = "Idle" /\ calls = <<>> /\ ~request.sent /\ ~response.received
               /\ ~ReportShown /\ ~ErrorShown)

\* C8 witness: the analyze button was clicked with a file and no key, and with a key
\* and no file
C8_Witness ==
    /\ event.kind = "analyze"
    /\ phase = "Idle"
    /\ \/ uploaded_file.present /\ api_key = <<>>
       \/ ~uploaded_file.present /\ api_key # <<>>

\* the steps of the flow Idle -> Dispatching -> (Succeeded | Failed) -> Idle
FlowStep ==
    <<phase, phase'>> \in {<<"Idle", "Idle">>, <<"Idle", "Dispatching">>,
                           <<"Dispatching", "Dispatching">>,
                           <<"Dispatching", "Succeeded">>, <<"Dispatching", "Failed">>,
                           <<"Succeeded", "Idle">>, <<"Failed", "Idle">>}

\* while an analysis is in progress no widget event is taken, and the one step that
\* stays in Dispatching is the sending of the request
SingleFlight ==
    phase # "Idle" =>
        /\ UNCHANGED <<event, model, api_key, uploaded_file, custom_rules>>
        /\ phase' = "Dispatching" => (~request.sent /\ request'.sent)

\* C9: the flow is Idle -> Dispatching -> (Succeeded | Failed) -> Idle with no other
\* step and no event taken in between; an analysis in Dispatching reaches Succeeded
\* or Failed, and from there Idle.
C9_Flow ==
    /\ [][FlowStep /\ SingleFlight]_vars
    /\ (phase = "Dispatching") ~> (phase \in {"Succeeded", "Failed"})
    /\ (phase \in {"Succeeded", "Failed"}) ~> (phase = "Idle")

\* C9 witness: an analysis went through Dispatching and a request to Succeeded
C9_Witness ==
    /\ phase = "Succeeded"
    /\ request.sent
    /\ response.received

\* the text of the lines ls[a+1..b-1]
Between(ls, a, b) == Join(<<"\n">>, SubSeq(ls, a + 1, b - 1))

\* the text between the json fence and the closing fence
Fenced(ls) ==
    LET a == CHOOSE k \in 1..Len(ls) : ls[k] = <<"U+0060","U+0060","U+0060","j","s","o","n">>
        b == CHOOSE k \in (a + 1)..Len(ls) : ls[k] = <<"U+0060","U+0060","U+0060">>
    IN Between(ls, a, b)

\* C7: the prompt holds, for the built-in and custom rules in list order, the
\* consecutive lines "- " + rule, and between a json fence and a closing fence the
\* configuration as JSON indented by two, which reads back as the configuration;
\* custom rules R1, R2 and the configuration {"a": 1} give the lines "- R1", "- R2"
\* and the fenced text {, "a": 1 indented by two, }.
C7_PromptTemplate ==
    ret.called =>
        LET ls == Lines(ret.result)
            rules == BuiltIn \o arg.custom_rules
        IN /\ \E h \in 1..(Len(ls) - Len(rules)) :
                  \A i \in 1..Len(rules) : ls[h + i] = <<"-", " ">> \o rules[i]
           /\ \E a, b \in 1..Len(ls) :
                  /\ a < b
                  /\ ls[a] = <<"U+0060","U+0060","U+0060","j","s","o","n">>
                  /\ ls[b] = <<"U+0060","U+0060","U+0060">>
                  /\ Between(ls, a, b) = json_dumps(arg.config, 2)
                  /\ json_load(Between(ls, a, b)).ok
                  /\ json_load(Between(ls, a, b)).val = arg.config
           /\ (arg.custom_rules = <<<<"R","1">>, <<"R","2">>>>
               /\ arg.config = JObj(<<<<<<"a">>, JInt(1)>>>>))
                  => /\ \E i \in 1..(Len(ls) - 1) :
                            ls[i] = <<"-"," ","R","1">> /\ ls[i + 1] = <<"-"," ","R","2">>
                     /\ Fenced(ls) = <<"{","\n"," "," ","\"","a","\"",":"," ","1","\n","}">>

\* C7 witness: the prompt for custom rules R1, R2 and the configuration {"a": 1}
C7_Witness ==
    /\ ret.called
    /\ arg.custom_rules = <<<<"R","1">>, <<"R","2">>>>
    /\ arg.config = JObj(<<<<<<"a">>, JInt(1)>>>>)
    /\ Fenced(Lines(ret.result)) = <<"{","\n"," "," ","\"","a","\"",":"," ","1","\n","}">>

====
